---- MODULE Spec2Model ----
(***************************************************************************)
(* A model of the Alu virtual machine (src/alu.c): the typed values, the   *)
(* operand stack, the register bank, the decoder, the dispatcher and the   *)
(* jump machinery.                                                         *)
(*                                                                         *)
(* Representation.                                                         *)
(*  - A linked list (alu_Stack) is a record [data, top]: data is the       *)
(*    sequence of the nodes' data fields in next-order, the head node      *)
(*    first; top is the top field of the HEAD node, as the position of the *)
(*    node it designates, 0 for null.  Only the head's top is kept: every  *)
(*    node is zeroed at allocation (line 321), top is assigned on the head *)
(*    only (lines 329, 1190) and cleared on the node Alu_super demotes     *)
(*    (line 1189), so every other node carries top = null.                 *)
(*  - An alu_Variable is a record [id, type, data]: id is the identity of  *)
(*    the allocation, data the payload as a sequence of integers: <<n>>    *)
(*    for a Number (the doubles used are small integers), <<byte>> for a   *)
(*    Bool, the characters without the NUL for a String, <<k>> for an      *)
(*    Abstract (k the position of the function in the table DEF).          *)
(*  - heap is the set of the ids of the alu_Variable objects that are      *)
(*    allocated and reachable; a referenced id outside heap is a dangling  *)
(*    pointer.                                                             *)
(*  - crashed: the process has been killed by a fault (a store or load     *)
(*    through a null or freed pointer, a double free).                     *)
(*  - raised: the error numbers printed by the raise macro so far.         *)
(*  - out: the lines written by puts during the run of a handler; called:  *)
(*    the host functions a CALL has invoked during it, each with the       *)
(*    values the stack held when the function was entered.                 *)
(*  - sigint: the handler of SIGINT has run.                               *)
(*  - fnfreed: the payload of an Abstract has been passed to free.         *)
(* malloc is taken to succeed, except malloc(0), which may return null.    *)
(***************************************************************************)
EXTENDS Integers, Sequences, FiniteSets, TLC

(* ---------------------------- bounds ----------------------------------- *)
\* greatest Number a modelled SUMSTACK may produce
MaxNum == 2
\* longest String a modelled SUMSTACK may produce
MaxStrLen == 2
\* deepest stack the embedding code pushes onto
MaxStack == 3
\* greatest number of instructions in an input buffer
MaxProg == 3

(* ---------------------- enumerations of alu.c -------------------------- *)
AERR_IDK == 0
AERR_NOMEM == 1
AERR_STKLN == 2
AERR_NOREG == 3
AERR_NOSTK == 4
AERR_NOFND == 5
AERR_TYPES == 6
AERR_OUTJM == 7
AERR_NOFIL == 8

ALU_NULL == 0
ALU_NUMBER == 1
ALU_STRING == 2
ALU_BOOL == 3
ALU_ABSTRACT == 4
ALU_INST == 5

OP_HALT == 0
OP_RET == 1
OP_JMP == 2
OP_JTR == 3
OP_JFA == 4
OP_JEM == 5
OP_JNEM == 6
OP_PUSHNUM == 7
OP_PUSHSTR == 8
OP_PUSHBOOL == 9
OP_PUSHDEF == 10
OP_SUMSTACK == 11
OP_STACKCLOSE == 12
OP_EVAL == 13
OP_SUPER == 14
OP_CALL == 15
OP_LOAD == 16
OP_UNLOAD == 17
OP_DEFUNLOAD == 18
OP_END == 19

\* errno value stored by Alu_push when malloc fails
ENOMEM == 12

(* ----------------------------- values ---------------------------------- *)
\* the null alu_Variable pointer
null == [id |-> 0, type |-> ALU_NULL, data |-> <<>>]

\* a null payload pointer (void *data)
nullptr == <<-1>>

\* a null list head
NoList == [data |-> <<>>, top |-> 0]

\* the static table of built-in functions, by position
DEF_table == << <<112, 114, 105, 110, 116>>, <<119, 97, 105, 116>> >>

\* the ids some owner references
Refs(A) ==
    {A.stack.data[i].id : i \in 1..Len(A.stack.data)}
    \cup {A.regs.data[i].var.id : i \in 1..Len(A.regs.data)}
    \cup {A.garbage.data[i].id : i \in 1..Len(A.garbage.data)}

\* malloc of an alu_Variable: an address that is neither allocated nor
\* still referenced (the least one, so that equal structures get equal ids)
NewId(A) ==
    LET used == A.heap \cup Refs(A) \cup {0}
    IN  CHOOSE i \in 1..(Cardinality(used) + 1) :
            i \notin used /\ \A j \in 1..(i - 1) : j \in used

\* the raise macro: prints the error number and returns
raise(A, errnum) == [A EXCEPT !.raised = @ \cup {errnum}]

\* a fault that kills the process
Crash(A) == [A EXCEPT !.crashed = TRUE]

\* var can be dereferenced: not null, not freed
Valid(A, var) == var # null /\ var.id \in A.heap

\* reading a _Bool object: an object holding a byte other than 0 and 1 is
\* not a value of the type and its read is undefined
ReadBool(byte) == IF byte \in {0, 1} THEN {byte = 1} ELSE BOOLEAN

(* --------------------------- Stack2 functions -------------------------- *)
\* a Stack_push that links the new node before the head
Stack_push_front(A, f, data) ==
    [A EXCEPT ![f] = [data |-> <<data>> \o @.data, top |-> Len(@.data) + 1]]

\* Stack_push(&A->f, data), lines 316-330: appends after the node that the
\* head's top designates; a null top under a non-empty list is a store
\* through a null pointer
Stack_push(A, f, data) ==
    IF A[f].data # <<>> /\ A[f].top = 0
    THEN Crash(A)
    ELSE [A EXCEPT ![f] = [data |-> Append(@.data, data),
                           top |-> Len(@.data) + 1]]

Stack_len(from) == Len(from.data)

(* ------------------------------ variables ------------------------------ *)
Alu_sizeoftype(t) ==
    CASE t = ALU_BOOL -> 1
      [] t = ALU_NUMBER -> 8
      [] OTHER -> 0

\* Alu_newvariable, lines 521-531 (id is the address malloc returns)
Alu_newvariable(id, type, data) ==
    IF data = nullptr \/ type = ALU_NULL
    THEN null
    ELSE [id |-> id, type |-> type, data |-> data]

\* Alu_cpyvar, lines 534-547: null for a type of size 0 that is no String
Alu_cpyvar(src, id) ==
    LET s0 == Alu_sizeoftype(src.type)
        s  == IF s0 = 0 /\ src.type = ALU_STRING THEN Len(src.data) + 1 ELSE s0
    IN  IF s = 0 THEN null
        ELSE [id |-> id, type |-> src.type, data |-> src.data]

(* ------------------------- stack manipulation -------------------------- *)
\* Alu_popk, lines 557-570: frees the head's variable and the head node;
\* the next node becomes the head, with the top field it already had (null)
Alu_popk(A) ==
    IF A.stack.data = <<>> THEN A
    ELSE LET var == Head(A.stack.data)
         IN  IF ~Valid(A, var) THEN Crash(A)
             ELSE [A EXCEPT !.heap = @ \ {var.id},
                            !.stack = [data |-> Tail(@.data), top |-> 0]]

RECURSIVE Alu_stackclose(_)
Alu_stackclose(A) ==
    IF A.stack.data = <<>> \/ A.crashed THEN A
    ELSE Alu_stackclose(Alu_popk(A))

\* Alu_push, lines 582-601: the set of the possible results
Alu_push(A, ptr, s, t) ==
    LET pushed == LET var == Alu_newvariable(NewId(A), t,
                                             IF s = 0 THEN <<0>> ELSE ptr)
                  IN  IF var = null THEN A
                      ELSE Stack_push([A EXCEPT !.heap = @ \cup {var.id}],
                                      "stack", var)
        nomem  == [A EXCEPT !.errno = ENOMEM]
    IN  IF s = 0 THEN {pushed, nomem} ELSE {pushed}

Alu_pushnumber(A, num) == Alu_push(A, <<num>>, 8, ALU_NUMBER)

Alu_pushbool(A, b) == Alu_push(A, <<b>>, 1, ALU_BOOL)

Alu_pushstring(A, str) == Alu_push(A, str, Len(str) + 1, ALU_STRING)

Alu_pushabstract(A, pointer) ==
    LET var == Alu_newvariable(NewId(A), ALU_ABSTRACT, pointer)
    IN  IF var = null THEN {A}
        ELSE {Stack_push([A EXCEPT !.heap = @ \cup {var.id}], "stack", var)}

\* Alu_pushdef, lines 631-637: linear scan of DEF_table by name
Alu_pushdef(A, str) ==
    IF \E n \in 1..Len(DEF_table) : DEF_table[n] = str
    THEN Alu_pushabstract(A, <<CHOOSE n \in 1..Len(DEF_table) :
                                  DEF_table[n] = str /\ \A m \in 1..(n - 1) : DEF_table[m] # str>>)
    ELSE {raise(A, AERR_NOFND)}

\* Alu_get, lines 655-664 (the raise of NOSTK is left to the caller's model)
Alu_get(A, index) ==
    IF index < Len(A.stack.data) THEN A.stack.data[index + 1] ELSE null

\* objects that no owner references any more are leaked: they can neither
\* be read nor freed again
Leak(A) == [A EXCEPT !.heap = @ \cap Refs(A)]

(* ------------------------------ SUMSTACK ------------------------------- *)
\* Alu_alloctype, lines 387-393: TRUE when it returns a block
Alu_alloctype(t) == Alu_sizeoftype(t) # 0

\* an Alu_sumvar that takes its operands in the other order
Alu_sumvar_swapped(a, b) ==
    CASE a.type = ALU_NUMBER -> {<<b.data[1] - a.data[1]>>}
      [] a.type = ALU_BOOL -> {<<b.data[1]>>}
      [] a.type = ALU_STRING -> {b.data \o a.data}
      [] OTHER -> {nullptr}

\* Alu_sumvar, lines 697-726: the possible payloads of the sum
Alu_sumvar(a, b) ==
    IF ~Alu_alloctype(a.type) /\ a.type # ALU_STRING THEN {nullptr}
    ELSE CASE a.type = ALU_NUMBER -> {<<a.data[1] + b.data[1]>>}
           [] a.type = ALU_BOOL ->
                {<<IF (IF x THEN 1 ELSE 0) + (IF y THEN 1 ELSE 0) # 0 THEN 1 ELSE 0>> :
                    x \in ReadBool(a.data[1]), y \in ReadBool(b.data[1])}
           [] a.type = ALU_STRING -> {a.data \o b.data}
           [] OTHER -> {nullptr}

\* an Alu_sumstack that clears the stack before it raises TYPES
Alu_sumstack_clearing(A) ==
    IF Stack_len(A.stack) < 2 THEN {raise(A, AERR_STKLN)}
    ELSE LET a == Alu_get(A, 0)
             b == Alu_get(A, 1)
         IN  IF ~Valid(A, a) \/ ~Valid(A, b) THEN {Crash(A)}
             ELSE LET t == a.type
                      B == Alu_stackclose(A)
                  IN  IF a.type # b.type THEN {raise(B, AERR_TYPES)}
                      ELSE IF B.crashed THEN {B}
                      ELSE UNION {IF t = ALU_STRING
                                  THEN Alu_pushstring(B, data)
                                  ELSE Alu_push(B, data, Alu_sizeoftype(t), t) :
                                  data \in Alu_sumvar(a, b)}

\* Alu_sumstack, lines 729-748
Alu_sumstack(A) ==
    IF Stack_len(A.stack) < 2 THEN {raise(A, AERR_STKLN)}
    ELSE LET a == Alu_get(A, 0)
             b == Alu_get(A, 1)
         IN  IF ~Valid(A, a) \/ ~Valid(A, b) THEN {Crash(A)}
             ELSE IF a.type # b.type THEN {raise(A, AERR_TYPES)}
             ELSE LET t == a.type
                      B == Alu_stackclose(A)
                  IN  IF B.crashed THEN {B}
                      ELSE UNION {IF t = ALU_STRING
                                  THEN Alu_pushstring(B, data)
                                  ELSE Alu_push(B, data, Alu_sizeoftype(t), t) :
                                  data \in Alu_sumvar(a, b)}

(* ------------------------------- SUPER --------------------------------- *)
\* an Alu_super that demotes the head to the last place
Alu_super_demote(A) ==
    IF Stack_len(A.stack) < 2 THEN {raise(A, AERR_STKLN)}
    ELSE IF A.stack.top = 0 THEN {Crash(A)}
    ELSE {[A EXCEPT !.stack = [data |-> Append(Tail(@.data), Head(@.data)),
                               top |-> Len(@.data)]]}

\* Alu_super, lines 1182-1196: the node the head's top designates becomes
\* the head; its top is set to its former previous node
Alu_super(A) ==
    IF Stack_len(A.stack) < 2 THEN {raise(A, AERR_STKLN)}
    ELSE IF A.stack.top = 0 THEN {Crash(A)}
    ELSE LET d == A.stack.data
             t == A.stack.top
         IN  {[A EXCEPT !.stack = [data |-> <<d[t]>> \o SubSeq(d, 1, t - 1)
                                              \o SubSeq(d, t + 1, Len(d)),
                                   top |-> t]]}

(* ------------------------------ registers ------------------------------ *)
\* a search of A->regs that finds no register
RegFind_none(A, registerIndex) == 0

\* the first node of A->regs whose register has this index, 0 when none
RegFind(A, registerIndex) ==
    LET hits == {i \in 1..Len(A.regs.data) : A.regs.data[i].index = registerIndex}
    IN  IF hits = {} THEN 0
        ELSE CHOOSE i \in hits : \A j \in hits : i <= j

\* Alu_load, lines 776-804
Alu_load(A, registerIndex) ==
    IF Stack_len(A.stack) < 1 THEN {raise(A, AERR_STKLN)}
    ELSE LET src == Head(A.stack.data)
         IN  IF ~Valid(A, src) THEN {Crash(A)}
             ELSE LET var == Alu_cpyvar(src, NewId(A))
                      A1  == IF var = null THEN A
                             ELSE [A EXCEPT !.heap = @ \cup {var.id}]
                      B   == Alu_stackclose(A1)
                      r   == RegFind(B, registerIndex)
                  IN  IF B.crashed THEN {B}
                      ELSE IF r # 0
                      THEN IF ~Valid(B, B.regs.data[r].var) THEN {Crash(B)}
                           ELSE {[B EXCEPT !.heap = @ \ {B.regs.data[r].var.id},
                                           !.regs.data[r].var = var]}
                      ELSE {Stack_push(B, "regs",
                                       [index |-> registerIndex, var |-> var])}

\* Alu_unload, lines 808-820
Alu_unload(A, registerIndex) ==
    LET r   == RegFind(A, registerIndex)
        var == IF r = 0 THEN null ELSE A.regs.data[r].var
    IN  IF var = null THEN {raise(A, AERR_NOREG)}
        ELSE IF ~Valid(A, var) THEN {Crash(A)}
        ELSE LET c == Alu_cpyvar(var, NewId(A))
             IN  {Stack_push(IF c = null THEN A
                             ELSE [A EXCEPT !.heap = @ \cup {c.id}], "stack", c)}

\* Alu_defunload, lines 827-844: pushes the variable found, then unlinks
\* and frees the HEAD node of A->regs and its alu_Register
Alu_defunload(A, registerIndex) ==
    LET r   == RegFind(A, registerIndex)
        var == IF r = 0 THEN null ELSE A.regs.data[r].var
    IN  IF var = null THEN {raise(A, AERR_NOREG)}
        ELSE LET B == Stack_push(A, "stack", var)
             IN  IF B.crashed THEN {B}
                 ELSE {Leak([B EXCEPT !.regs = [data |-> Tail(@.data),
                                                top |-> 0]])}

(* ------------------------------ teardown ------------------------------- *)
\* Alu_registerclose, lines 758-772
RECURSIVE Alu_registerclose(_)
Alu_registerclose(A) ==
    IF A.regs.data = <<>> \/ A.crashed THEN A
    ELSE LET var == Head(A.regs.data).var
         IN  IF ~Valid(A, var) THEN Crash(A)
             ELSE Alu_registerclose(
                    [A EXCEPT !.heap = @ \ {var.id},
                              !.regs = [data |-> Tail(@.data), top |-> 0]])

\* Alu_garbageclose, lines 872-886
RECURSIVE Alu_garbageclose(_)
Alu_garbageclose(A) ==
    IF A.garbage.data = <<>> \/ A.crashed THEN A
    ELSE LET var == Head(A.garbage.data)
         IN  IF ~Valid(A, var) THEN Crash(A)
             ELSE Alu_garbageclose(
                    [A EXCEPT !.heap = @ \ {var.id},
                              !.garbage = [data |-> Tail(@.data), top |-> 0]])

\* Alu_instructionclose, lines 889-899
Alu_instructionclose(A) == [A EXCEPT !.instructions = NoList]

\* Alu_close, lines 903-920, on a state that is not null: the state after
\* the teardown and the status returned
Alu_close(A) ==
    LET res == IF A.error # nullptr THEN 1 ELSE 0
        B   == Alu_stackclose(A)
        C   == IF B.crashed THEN B ELSE Alu_garbageclose(B)
        D   == IF C.crashed THEN C ELSE Alu_instructionclose(C)
        E   == IF D.crashed THEN D ELSE Alu_registerclose(D)
    IN  [A |-> E, res |-> res]

\* Alu_newstate, lines 860-869: every field zeroed
Alu_newstate ==
    [error |-> nullptr, stack |-> NoList, garbage |-> NoList, regs |-> NoList,
     instructions |-> NoList,
     heap |-> {}, raised |-> {}, errno |-> 0, crashed |-> FALSE,
     out |-> <<>>, called |-> <<>>, sigint |-> FALSE,
     fnfreed |-> FALSE]

(* -------------------------------- EVAL --------------------------------- *)
EVAL_EQUALS == 1
EVAL_SMALLER == 2
EVAL_GREATER == 4

\* conversion of an int to int8_t (modulo 256)
Int8(x) == ((x + 128) % 256) - 128

\* strcmp: the difference of the first differing bytes (the end of a string
\* reads as the NUL), or only its sign, as the library chooses
strcmp(s1, s2) ==
    LET n  == IF Len(s1) < Len(s2) THEN Len(s1) ELSE Len(s2)
        eq == {i \in 0..n : SubSeq(s1, 1, i) = SubSeq(s2, 1, i)}
        k  == CHOOSE i \in eq : \A j \in eq : j <= i
        c1 == IF k < Len(s1) THEN s1[k + 1] ELSE 0
        c2 == IF k < Len(s2) THEN s2[k + 1] ELSE 0
        d  == c1 - c2
    IN  {d, IF d > 0 THEN 1 ELSE IF d < 0 THEN -1 ELSE 0}

\* the values cmpres can take, line 939-942.  A String pair: strcmp
\* converted to int8_t.  Anything else is read as two doubles: for Numbers
\* the difference converted to int8_t, undefined when it is out of the
\* range of the type; a Bool or Abstract payload is no double object (the
\* read runs past the one-byte block, or through a function pointer)
Alu_cmpres(a, b) ==
    CASE a.type = ALU_STRING -> {Int8(d) : d \in strcmp(a.data, b.data)}
      [] a.type = ALU_NUMBER ->
            LET d == a.data[1] - b.data[1]
            IN  IF d \in -128..127 THEN {d} ELSE -128..127
      [] OTHER -> -128..127

\* an ev & eval whose ev never has the bit EVAL_EQUALS
EvalMask_unequal(cmpres, eval) ==
    LET ev == IF cmpres < 0 THEN EVAL_SMALLER ELSE EVAL_GREATER
    IN  (eval \div ev) % 2 = 1

\* ev & eval for the bits of alu_Eval
EvalMask(cmpres, eval) ==
    LET ev == IF cmpres = 0 THEN EVAL_EQUALS
              ELSE IF cmpres < 0 THEN EVAL_SMALLER ELSE EVAL_GREATER
    IN  (eval \div ev) % 2 = 1

\* an Alu_eval that compares the payloads whatever the tags
Alu_eval_untyped(A, eval) ==
    IF Stack_len(A.stack) < 1 THEN {raise(A, AERR_STKLN)}
    ELSE LET a == Alu_get(A, 0)
             b == Alu_get(A, 1)
         IN  IF b = null THEN {Crash(raise(A, AERR_NOSTK))}
             ELSE UNION {Alu_pushbool(Alu_stackclose(A),
                                      IF EvalMask(c, eval) THEN 1 ELSE 0) :
                         c \in Alu_cmpres(a, b)}

\* Alu_eval, lines 924-947
Alu_eval(A, eval) ==
    IF Stack_len(A.stack) < 1 THEN {raise(A, AERR_STKLN)}
    ELSE LET a == Alu_get(A, 0)
             b == Alu_get(A, 1)
         IN  IF b = null THEN {Crash(raise(A, AERR_NOSTK))}
             ELSE IF ~Valid(A, a) \/ ~Valid(A, b) THEN {Crash(A)}
             ELSE LET B == Alu_stackclose(A)
                  IN  IF B.crashed THEN {B}
                      ELSE IF a.type # b.type THEN Alu_pushbool(B, 0)
                      ELSE UNION {Alu_pushbool(B, IF EvalMask(c, eval) THEN 1 ELSE 0) :
                                  c \in Alu_cmpres(a, b)}

(* -------------------------------- CALL --------------------------------- *)
\* Alu_pop, lines 640-652: the head's variable moves to the garbage list
Alu_pop(A) ==
    IF A.stack.data = <<>> THEN A
    ELSE Stack_push([A EXCEPT !.stack = [data |-> Tail(@.data), top |-> 0]],
                    "garbage", Head(A.stack.data))

\* Alu_vartostring on the head, lines 498-504, with the converters of
\* CONVERT_STRING: TRUE when the conversion faults.  __Alu_abstracttoa
\* passes the function pointer to free; __Alu_ntoa leaves an empty buffer
\* for a Number whose integer and fraction parts are 0 and strrev then
\* walks out of it
TostringFaults(var) ==
    \/ var.type = ALU_ABSTRACT
    \/ var.type = ALU_NUMBER /\ var.data[1] = 0

\* __Alu_ntoa_fillbuf, lines 440-454, for a Number without fraction and
\* sign: the decimal digits of the integer part, the least one first
RECURSIVE Alu_ntoa_fillbuf(_)
Alu_ntoa_fillbuf(n) ==
    IF n = 0 THEN <<>> ELSE <<48 + (n % 10)>> \o Alu_ntoa_fillbuf(n \div 10)

\* strrev, lines 298-307, on a string that is not empty
strrev(str) == [i \in 1..Len(str) |-> str[Len(str) + 1 - i]]

\* __Alu_btoa, lines 425-430
Alu_btoa(value) == IF value THEN <<116, 114, 117, 101>>
                   ELSE <<102, 97, 108, 115, 101>>

\* Alu_vartostring, lines 498-504: the texts the variable may become
Alu_vartostring(var) ==
    CASE var.type = ALU_STRING -> {var.data}
      [] var.type = ALU_NUMBER -> {strrev(Alu_ntoa_fillbuf(var.data[1]))}
      [] var.type = ALU_BOOL -> {Alu_btoa(value) : value \in ReadBool(var.data[1])}
      [] OTHER -> {}

\* the values of a list of variables, whatever their addresses
ValsOf(data) == [i \in 1..Len(data) |-> [type |-> data[i].type, data |-> data[i].data]]

\* Alu_print, lines 1141-1149: converts the head to a string, writes it as
\* a line and pops it, until the stack is empty
RECURSIVE Alu_print(_)
Alu_print(A) ==
    IF A.stack.data = <<>> \/ A.crashed THEN {A}
    ELSE LET var == Head(A.stack.data)
         IN  IF ~Valid(A, var) THEN {Crash(A)}
             ELSE IF var.type = ALU_ABSTRACT
             THEN {Crash([A EXCEPT !.fnfreed = TRUE])}
             ELSE IF TostringFaults(var) THEN {Crash(A)}
             ELSE UNION {Alu_print(Alu_popk([A EXCEPT !.out = Append(@, line)])) :
                         line \in Alu_vartostring(var)}

\* Alu_call, lines 1165-1179: DEF_table[1] is Alu_print, DEF_table[2] is
\* Alu_wait (which changes nothing); any other pointer is no function
Alu_call(A) ==
    IF A.stack.data = <<>> THEN {raise(A, AERR_NOSTK)}
    ELSE LET var == Head(A.stack.data)
             B   == Alu_pop(A)
         IN  IF B.crashed THEN {B}
             ELSE IF ~Valid(A, var) THEN {Crash(B)}
             ELSE IF var.type = ALU_ABSTRACT
             THEN LET C == [B EXCEPT !.called =
                                Append(@, [f |-> var.data,
                                           stack |-> ValsOf(B.stack.data)])]
                  IN  CASE var.data = <<1>> -> Alu_print(C)
                        [] var.data = <<2>> -> {C}
                        [] OTHER -> {Crash(B)}
             ELSE {raise(B, AERR_TYPES)}

(* ------------------------------ decoding ------------------------------- *)
\* bytesint, lines 275-281: four bytes, big-endian, into a 32-bit int
bytesint(bytes) ==
    LET r3 == (bytes[1] * 256 + bytes[2]) * 256 + bytes[3]
    IN  IF r3 >= 2^23 THEN (r3 - 2^24) * 256 + bytes[4]
        ELSE r3 * 256 + bytes[4]

\* bytesdouble, lines 284-296, for the doubles whose low 32 mantissa bits
\* are 0 and whose value is an integer below 2^11
bytesdouble(bytes) ==
    LET sign == bytes[1] \div 128
        e    == (bytes[1] % 128) * 16 + (bytes[2] \div 16)
        m20  == ((bytes[2] % 16) * 256 + bytes[3]) * 256 + bytes[4]
        mag  == IF e < 1023 THEN 0
                ELSE ((2^20 + m20) * 2^(e - 1023)) \div 2^20
    IN  IF sign = 1 THEN 0 - mag ELSE mag

\* strcut, lines 257-271
strcut(str, from, to) == SubSeq(str, from + 1, to)

\* strlen of the C string that starts at offset from (0-based) of bytes
strlen(bytes, from) ==
    LET nul == {i \in (from + 1)..Len(bytes) : bytes[i] = 0}
    IN  IF nul = {} THEN Len(bytes) - from
        ELSE (CHOOSE i \in nul : \A j \in nul : i <= j) - 1 - from

\* the opcode table F, lines 209-222: entries 0 .. OP_UNLOAD, the ones that
\* are not listed zeroed
F ==
    [op \in 0..OP_UNLOAD |->
        CASE op = OP_STACKCLOSE -> [func |-> "Alu_stackclose", argument |-> 0]
          [] op = OP_SUMSTACK -> [func |-> "Alu_sumstack", argument |-> 0]
          [] op = OP_CALL -> [func |-> "Alu_call", argument |-> 0]
          [] op = OP_SUPER -> [func |-> "Alu_super", argument |-> 0]
          [] op = OP_LOAD -> [func |-> "Alu_load", argument |-> 1]
          [] op = OP_UNLOAD -> [func |-> "Alu_unload", argument |-> 1]
          [] op = OP_PUSHNUM -> [func |-> "Alu_pushnumber", argument |-> 2]
          [] op = OP_PUSHSTR -> [func |-> "Alu_pushstring", argument |-> 3]
          [] op = OP_PUSHDEF -> [func |-> "Alu_pushdef", argument |-> 3]
          [] op = OP_PUSHBOOL -> [func |-> "Alu_pushbool", argument |-> 4]
          [] op = OP_EVAL -> [func |-> "Alu_eval", argument |-> 4]
          [] OTHER -> [func |-> "null", argument |-> 0]]

\* F[op].argument as the build can read it: past the end of F the read
\* yields whatever follows the table
ArgumentOf(op) ==
    IF op \in DOMAIN F THEN {F[op].argument} ELSE 0..5

\* __Alu_readop, lines 951-971, on the buffer ptr at offset n (0-based)
\* for the argument kind read from F
Alu_readop(op, ptr, n, argument) ==
    IF op >= OP_JMP /\ op <= OP_JNEM THEN 4
    ELSE CASE argument = 1 -> 4
           [] argument = 2 -> 8
           [] argument = 3 -> strlen(ptr, n)
           [] argument = 4 -> 1
           [] OTHER -> 0

\* the buffer ptr as a read of its bytes up to offset to sees it: what
\* follows the buffer in memory is read as zero bytes (such a read is made
\* only for an opcode that F has no entry for)
ReadUpTo(ptr, to) ==
    IF to <= Len(ptr) THEN ptr
    ELSE ptr \o [i \in 1..(to - Len(ptr)) |-> 0]

\* Alu_feed, lines 974-997: the lists of records the buffer ptr can decode
\* to from offset n on
RECURSIVE Alu_feed(_, _)
Alu_feed(ptr, n) ==
    LET op == IF n < Len(ptr) THEN ptr[n + 1] ELSE OP_HALT
    IN  IF op = OP_HALT \/ op > OP_END THEN {<<>>}
        ELSE UNION {
               LET readlen == Alu_readop(op, ptr, n, argument)
                   str     == strcut(ReadUpTo(ptr, n + readlen + 1), n,
                                     n + readlen + 1)
               IN  {<<str>> \o rest : rest \in Alu_feed(ptr, n + readlen + 1)} :
               argument \in ArgumentOf(op)}

(* ------------------------------ dispatch ------------------------------- *)
\* the call through F[op].func for each argument kind; a pointer that is
\* no function of the kind faults
Call0(func, A) ==
    CASE func = "Alu_stackclose" -> {Alu_stackclose(A)}
      [] func = "Alu_sumstack" -> Alu_sumstack(A)
      [] func = "Alu_call" -> Alu_call(A)
      [] func = "Alu_super" -> Alu_super(A)
      [] OTHER -> {Crash(A)}

Call1(func, A, size) ==
    CASE func = "Alu_load" -> Alu_load(A, size)
      [] func = "Alu_unload" -> Alu_unload(A, size)
      [] OTHER -> {Crash(A)}

Call2(func, A, num) ==
    CASE func = "Alu_pushnumber" -> Alu_pushnumber(A, num)
      [] OTHER -> {Crash(A)}

Call3(func, A, str) ==
    CASE func = "Alu_pushstring" -> Alu_pushstring(A, str)
      [] func = "Alu_pushdef" -> Alu_pushdef(A, str)
      [] OTHER -> {Crash(A)}

\* the byte is passed as it is: Alu_pushbool is called through func4_t and
\* stores it without a conversion to _Bool
Call4(func, A, byte) ==
    CASE func = "Alu_pushbool" -> Alu_pushbool(A, byte)
      [] func = "Alu_eval" -> Alu_eval(A, byte)
      [] OTHER -> {Crash(A)}

\* __Alu_executeop, lines 1000-1025
Alu_executeop(A, op, instructions) ==
    IF op \notin DOMAIN F THEN {Crash(A), A}
    ELSE LET func == F[op].func
         IN  CASE F[op].argument = 0 -> Call0(func, A)
               [] F[op].argument = 1 ->
                    Call1(func, A, bytesint(SubSeq(instructions, 2, 5)))
               [] F[op].argument = 2 ->
                    Call2(func, A, bytesdouble(SubSeq(instructions, 2, 9)))
               [] F[op].argument = 3 ->
                    Call3(func, A, strcut(instructions, 1,
                                          strlen(instructions, 1) + 1))
               [] F[op].argument = 4 -> Call4(func, A, instructions[2])
               [] OTHER -> {A}

(* -------------------------------- jumps -------------------------------- *)
\* an __Alu_needtojump whose JFA jumps on true, like JTR
Alu_needtojump_on_true(A, op) ==
    IF op = OP_JMP THEN {TRUE}
    ELSE IF A.stack.data = <<>> /\ op = OP_JEM THEN {TRUE}
    ELSE IF A.stack.data = <<>> THEN {FALSE}
    ELSE LET var == Head(A.stack.data)
         IN  IF op \in {OP_JFA, OP_JTR}
             THEN IF var.type = ALU_BOOL THEN ReadBool(var.data[1]) ELSE {FALSE}
             ELSE {TRUE}

\* __Alu_needtojump, lines 1028-1048: the values it can return
Alu_needtojump(A, op) ==
    IF op = OP_JMP THEN {TRUE}
    ELSE IF A.stack.data = <<>> /\ op = OP_JEM THEN {TRUE}
    ELSE IF A.stack.data = <<>> THEN {FALSE}
    ELSE LET var == Head(A.stack.data)
         IN  CASE op = OP_JFA ->
                    IF var.type = ALU_BOOL
                    THEN {~x : x \in ReadBool(var.data[1])} ELSE {FALSE}
               [] op = OP_JTR ->
                    IF var.type = ALU_BOOL
                    THEN ReadBool(var.data[1]) ELSE {FALSE}
               [] OTHER -> {TRUE}

\* the instruction list is next-linked in decoding order; 0 is null
NextOf(A, iptr) == IF iptr < Len(A.instructions.data) THEN iptr + 1 ELSE 0

PreviousOf(A, iptr) == iptr - 1

\* for (; jumps-- and (*iptr != null); *iptr = (*iptr)->next)
RECURSIVE WalkNext(_, _, _)
WalkNext(A, iptr, jumps) ==
    IF jumps = 0 \/ iptr = 0 THEN iptr
    ELSE WalkNext(A, NextOf(A, iptr), jumps - 1)

\* for (; jumps++ and (*iptr != null); *iptr = (*iptr)->previous), by the
\* number of links
RECURSIVE WalkPrevious(_, _, _)
WalkPrevious(A, iptr, links) ==
    IF links = 0 \/ iptr = 0 THEN iptr
    ELSE WalkPrevious(A, PreviousOf(A, iptr), links - 1)

INT_MAX == 2147483647

\* a walk of n links, without the bias
JumpWalk_unbiased(A, iptr, n) ==
    IF n >= 0 THEN {WalkNext(A, iptr, n)}
    ELSE {WalkPrevious(A, iptr, IF n < 0 - INT_MAX THEN INT_MAX ELSE 0 - n)}

\* the bias of line 1061 and the walk of lines 1064-1069: the cursors the
\* walk can end on.  At the two ends of int the bias overflows: the sum
\* wraps, or it is taken as not overflowing
JumpWalk(A, iptr, n) ==
    IF n = INT_MAX
    THEN {WalkNext(A, WalkNext(A, iptr, n), 1),
          WalkPrevious(A, WalkPrevious(A, iptr, n), 1)}
    ELSE IF n < 0 - INT_MAX
    THEN {WalkNext(A, iptr, INT_MAX),
          WalkPrevious(A, WalkPrevious(A, iptr, INT_MAX), 2)}
    ELSE LET jumps == n + (IF n > 0 THEN 1 ELSE -1)
         IN  IF jumps >= 0 THEN {WalkNext(A, iptr, jumps)}
             ELSE {WalkPrevious(A, iptr, 0 - jumps)}

\* an Alu_jump that pops nothing when the jump is not taken
Alu_jump_keeping(A, op, iptr) ==
    UNION {
      IF ~need
      THEN {[A |-> A, iptr |-> NextOf(A, iptr), need |-> FALSE]}
      ELSE LET jumps == bytesint(SubSeq(A.instructions.data[iptr], 2, 5))
               B     == Alu_popk(A)
           IN  {[A |-> IF to = 0 /\ ~B.crashed THEN raise(B, AERR_OUTJM) ELSE B,
                 iptr |-> to, need |-> TRUE] : to \in JumpWalk(B, iptr, jumps)} :
      need \in Alu_needtojump(A, op)}

\* Alu_jump, lines 1051-1072: the possible outcomes, each the state, the
\* cursor and the value __Alu_needtojump returned
Alu_jump(A, op, iptr) ==
    UNION {
      IF ~need
      THEN {[A |-> Alu_popk(A), iptr |-> NextOf(A, iptr), need |-> FALSE]}
      ELSE LET jumps == bytesint(SubSeq(A.instructions.data[iptr], 2, 5))
               B     == Alu_popk(A)
           IN  {[A |-> IF to = 0 /\ ~B.crashed THEN raise(B, AERR_OUTJM) ELSE B,
                 iptr |-> to, need |-> TRUE] : to \in JumpWalk(B, iptr, jumps)} :
      need \in Alu_needtojump(A, op)}

(* ============================ state machine ============================ *)
\* A            the alu_State and the process facts listed at the top
\* input        the buffer handed to Alu_start
\* instruction  the cursor of Alu_execute: a position in A.instructions.data,
\*              0 for null
\* pc           where main is: "start", "execute", "returned", "exit"; "host"
\*              when embedding code calls the handlers itself
\* status       the value returned by Alu_close, -1 before
\* errors       the error numbers raised since the start of the run
\* last         the operation done last: its name, its arguments, the
\*              cursor it was fetched at, for a jump whether it was taken
\*              and, for a call of the host, what index 0 of the stack held
VARIABLES A, input, instruction, pc, status, errors, last

vars == <<A, input, instruction, pc, status, errors, last>>

\* the type and the payload of a variable, whatever its address
Val(v) == [type |-> v.type, data |-> v.data]

NoOp == [op |-> "none", arg |-> <<>>, at |-> 0, taken |-> FALSE,
         peek |-> Val(null)]

\* a Number whose difference to 0 is outside the range of int8_t
BigNum == 2^8

\* the values of the model stay in its bounds, the stack no deeper than
\* depth, no Number but BigNum greater than most and no String longer than
\* longest
Within(B, depth, most, longest) ==
    /\ Len(B.stack.data) <= depth
    /\ \A i \in 1..Len(B.stack.data) :
          LET v == B.stack.data[i]
          IN  /\ v.type = ALU_NUMBER => v.data[1] \in (0..most) \cup {BigNum}
              /\ v.type = ALU_STRING => Len(v.data) <= longest

Bounded(B) == Within(B, MaxStack, MaxNum, MaxStrLen)

\* a run of a handler starts with nothing raised, written or invoked
Fresh(B) == [B EXCEPT !.raised = {}, !.out = <<>>, !.called = <<>>]

(* ---------------------------- program inputs --------------------------- *)
ALU_SIGNATURE == <<27, 202, 202>>

\* the four big-endian bytes of the 32-bit int n
EncodeInt(n) ==
    LET k == IF n >= 0 THEN n ELSE 0 - (n + 1)
        b == <<k \div 2^24, (k \div 2^16) % 256, (k \div 2^8) % 256, k % 256>>
    IN  IF n >= 0 THEN b ELSE [i \in 1..4 |-> 255 - b[i]]

\* the eight big-endian bytes of the doubles 0.0, 1.0 and 2.0
EncodeNum(n) ==
    CASE n = 0 -> <<0, 0, 0, 0, 0, 0, 0, 0>>
      [] n = 1 -> <<63, 240, 0, 0, 0, 0, 0, 0>>
      [] n = 2 -> <<64, 0, 0, 0, 0, 0, 0, 0>>

RECURSIVE Flatten(_)
Flatten(records) ==
    IF records = <<>> THEN <<>> ELSE Head(records) \o Flatten(Tail(records))

\* the buffers made of the signature, at most MaxProg instructions of the
\* alphabet and HALT
Buffers(alphabet) ==
    {ALU_SIGNATURE \o Flatten(p) \o <<OP_HALT>> :
        p \in UNION {[1..l -> alphabet] : l \in 0..MaxProg}}

JumpOps == {OP_JMP, OP_JTR, OP_JFA, OP_JEM, OP_JNEM}

\* programs about the handlers and the errors they raise
OpsAlphabet ==
    {<<OP_PUSHNUM>> \o EncodeNum(1), <<OP_PUSHSTR, 97, 0>>, <<OP_PUSHBOOL, 1>>,
     <<OP_PUSHDEF, 120, 0>>, <<OP_PUSHDEF>> \o DEF_table[1] \o <<0>>,
     <<OP_SUMSTACK>>, <<OP_STACKCLOSE>>, <<OP_SUPER>>, <<OP_CALL>>,
     <<OP_EVAL, EVAL_EQUALS>>,
     <<OP_LOAD>> \o EncodeInt(0), <<OP_UNLOAD>> \o EncodeInt(0),
     <<OP_RET>>, <<OP_JMP>> \o EncodeInt(1), <<OP_JMP>> \o EncodeInt(1000)}

\* programs about the jumps
JumpAlphabet ==
    {<<OP_PUSHBOOL, 0>>, <<OP_PUSHBOOL, 1>>, <<OP_PUSHBOOL, 2>>,
     <<OP_PUSHSTR, 97, 0>>, <<OP_RET>>, <<OP_LOAD>> \o EncodeInt(0)}
    \cup {<<op>> \o EncodeInt(n) : op \in JumpOps, n \in -1..1}
    \cup {<<OP_JMP>> \o EncodeInt(n) : n \in {-2, 2, INT_MAX, 0 - INT_MAX - 1}}

InitWith(buffers) ==
    /\ A = Alu_newstate
    /\ input \in buffers
    /\ instruction = 0
    /\ pc = "start"
    /\ status = -1
    /\ errors = {}
    /\ last = NoOp

Init == InitWith(Buffers(OpsAlphabet))

InitJump == InitWith(Buffers(JumpAlphabet))

(* ------------------------------- main ---------------------------------- *)
\* an Alu_start that decodes nothing when the buffer does not begin with
\* ALU_SIGNATURE
Alu_start_checked ==
    /\ pc = "start"
    /\ \E list \in (IF SubSeq(input, 1, Len(ALU_SIGNATURE)) = ALU_SIGNATURE
                     THEN Alu_feed(strcut(input, Len(ALU_SIGNATURE), Len(input)), 0)
                     ELSE {<<>>}) :
          /\ A' = [A EXCEPT !.instructions = [data |-> list, top |-> Len(list)]]
          /\ instruction' = IF list = <<>> THEN 0 ELSE 1
    /\ pc' = "execute"
    /\ last' = [NoOp EXCEPT !.op = "Alu_start"]
    /\ UNCHANGED <<input, status, errors>>

\* Alu_start, lines 1096-1109: skips strlen(ALU_SIGNATURE) bytes, decodes,
\* and enters Alu_execute with the cursor on the head of the list
Alu_start ==
    /\ pc = "start"
    /\ \E list \in Alu_feed(strcut(input, Len(ALU_SIGNATURE), Len(input)), 0) :
          /\ A' = [A EXCEPT !.instructions = [data |-> list, top |-> Len(list)]]
          /\ instruction' = IF list = <<>> THEN 0 ELSE 1
    /\ pc' = "execute"
    /\ last' = [NoOp EXCEPT !.op = "Alu_start"]
    /\ UNCHANGED <<input, status, errors>>

\* the condition of the loop of Alu_execute, line 1079
Running == pc = "execute" /\ ~A.crashed /\ instruction # 0 /\ A.errno = 0

\* the opcode under the cursor
Opcode == A.instructions.data[instruction][1]

\* an Alu_execute that steps over a RET as over any other opcode
ExecuteRet_over ==
    /\ Running
    /\ Opcode = OP_RET
    /\ instruction' = NextOf(A, instruction)
    /\ last' = [NoOp EXCEPT !.op = "RET", !.arg = <<OP_RET>>, !.at = instruction]
    /\ UNCHANGED <<A, input, pc, status, errors>>

\* Alu_execute, lines 1081-1083: RET
ExecuteRet ==
    /\ Running
    /\ Opcode = OP_RET
    /\ pc' = "returned"
    /\ last' = [NoOp EXCEPT !.op = "RET", !.arg = <<OP_RET>>, !.at = instruction]
    /\ UNCHANGED <<A, input, instruction, status, errors>>

\* Alu_execute, lines 1085-1089: a jump, the stack staying within depth,
\* most and longest
ExecuteJumpWithin(depth, most, longest) ==
    /\ Running
    /\ Opcode \in JumpOps
    /\ \E r \in Alu_jump(Fresh(A), Opcode, instruction) :
          /\ Within(r.A, depth, most, longest)
          /\ A' = r.A
          /\ instruction' = r.iptr
          /\ errors' = errors \cup r.A.raised
          /\ last' = [NoOp EXCEPT
                        !.op = "Alu_jump",
                        !.arg = <<Opcode, bytesint(SubSeq(A.instructions.data[instruction], 2, 5))>>,
                        !.at = instruction,
                        !.taken = r.need]
    /\ UNCHANGED <<input, pc, status>>

ExecuteJump == ExecuteJumpWithin(MaxStack, MaxNum, MaxStrLen)

\* Alu_execute, lines 1090-1091: any other opcode, the stack staying
\* within depth, most and longest
ExecuteOpWithin(depth, most, longest) ==
    /\ Running
    /\ Opcode # OP_RET
    /\ Opcode \notin JumpOps
    /\ \E B \in Alu_executeop(Fresh(A), Opcode, A.instructions.data[instruction]) :
          /\ Within(B, depth, most, longest)
          /\ A' = B
          /\ errors' = errors \cup B.raised
    /\ instruction' = NextOf(A, instruction)
    /\ last' = [NoOp EXCEPT !.op = "executeop", !.arg = <<Opcode>>, !.at = instruction]
    /\ UNCHANGED <<input, pc, status>>

ExecuteOp == ExecuteOpWithin(MaxStack, MaxNum, MaxStrLen)

\* Alu_execute, line 1079: the loop ends, the cursor is null or errno is set
ExecuteEnd ==
    /\ pc = "execute"
    /\ ~A.crashed
    /\ instruction = 0 \/ A.errno # 0
    /\ pc' = "returned"
    /\ last' = [NoOp EXCEPT !.op = "return"]
    /\ UNCHANGED <<A, input, instruction, status, errors>>

\* main, line 1237: return Alu_close(A)
Close ==
    /\ pc = "returned"
    /\ ~A.crashed
    /\ LET r == Alu_close(Fresh(A))
       IN  /\ A' = r.A
           /\ status' = IF r.A.crashed THEN status ELSE r.res
    /\ pc' = "exit"
    /\ last' = [NoOp EXCEPT !.op = "Alu_close"]
    /\ UNCHANGED <<input, instruction, errors>>

Next == Alu_start \/ ExecuteRet \/ ExecuteJump \/ ExecuteOp \/ ExecuteEnd \/ Close

Spec == Init /\ [][Next]_vars

SpecJump == InitJump /\ [][Next]_vars

\* the programs about the jumps, run to their end: main calls Alu_start and
\* Alu_close one after the other and nothing suspends the loop of
\* Alu_execute, so a step that can be taken is taken
SpecTerminate == InitJump /\ [][Next]_vars /\ WF_vars(Next)

(* ----------------------------- signature ------------------------------- *)
\* first three bytes of an input buffer: the signature, the signature with
\* its last byte changed, and three bytes that are opcodes
Signatures == {ALU_SIGNATURE, <<27, 202, 0>>, <<OP_PUSHBOOL, 1, OP_RET>>}

\* the programs about the handlers, behind each of these three bytes
InitSignature ==
    InitWith({sig \o strcut(buffer, Len(ALU_SIGNATURE), Len(buffer)) :
                 sig \in Signatures, buffer \in Buffers(OpsAlphabet)})

SpecSignature == InitSignature /\ [][Next]_vars

\* Alu_execute, lines 1075-1093, run from the cursor iptr to its return or
\* to a fault, for a program whose jumps go forward: the states it can end
\* in, each with the errors raised since errs
RECURSIVE Execute(_, _, _)
Execute(B, iptr, errs) ==
    IF B.crashed \/ iptr = 0 \/ B.errno # 0 THEN {[A |-> B, errors |-> errs]}
    ELSE LET record == B.instructions.data[iptr]
             op     == record[1]
         IN  IF op = OP_RET THEN {[A |-> B, errors |-> errs]}
             ELSE IF op \in JumpOps
             THEN UNION {Execute(r.A, r.iptr, errs \cup r.A.raised) :
                            r \in Alu_jump(Fresh(B), op, iptr)}
             ELSE UNION {Execute(C, NextOf(B, iptr), errs \cup C.raised) :
                            C \in Alu_executeop(Fresh(B), op, record)}

\* Alu_start, lines 1096-1109, on a new state: the ends of the run of buffer
Run(buffer) ==
    UNION {Execute([Alu_newstate EXCEPT
                       !.instructions = [data |-> list, top |-> Len(list)]],
                   IF list = <<>> THEN 0 ELSE 1, {}) :
           list \in Alu_feed(strcut(buffer, Len(ALU_SIGNATURE), Len(buffer)), 0)}

(* ------------------------------ SIGINT --------------------------------- *)
\* __Alu_sighandler, lines 364-368, installed by Alu_newstate (line 866)
Alu_sighandler(B) == [B EXCEPT !.errno = 1, !.sigint = TRUE]

\* the states a handler that takes B to C can end in when SIGINT is
\* delivered while it runs: the store of the signal handler stands, or a
\* free() in progress (lines 567-569, 789-790), which keeps errno as it
\* found it, puts the former value back over it
Signalled(B, C) ==
    {Alu_sighandler(C)}
    \cup {[C EXCEPT !.sigint = TRUE] : x \in {B.heap \ C.heap} \ {{}}}

\* SIGINT delivered while Alu_execute tests the condition of its loop
Interrupt ==
    /\ pc = "execute"
    /\ ~A.crashed
    /\ ~A.sigint
    /\ A' = Alu_sighandler(A)
    /\ last' = [NoOp EXCEPT !.op = "SIGINT"]
    /\ UNCHANGED <<input, instruction, pc, status, errors>>

\* Alu_execute, lines 1085-1091: SIGINT delivered while the instruction
\* under the cursor is executed
ExecuteInterrupted ==
    /\ Running
    /\ ~A.sigint
    /\ Opcode # OP_RET
    /\ \E r \in (IF Opcode \in JumpOps
                 THEN Alu_jump(Fresh(A), Opcode, instruction)
                 ELSE {[A |-> B, iptr |-> NextOf(A, instruction), need |-> FALSE] :
                          B \in Alu_executeop(Fresh(A), Opcode,
                                              A.instructions.data[instruction])}) :
          \E C \in Signalled(A, r.A) :
             /\ Bounded(C)
             /\ A' = C
             /\ instruction' = r.iptr
             /\ errors' = errors \cup C.raised
             /\ last' = [NoOp EXCEPT
                           !.op = IF Opcode \in JumpOps THEN "Alu_jump" ELSE "executeop",
                           !.arg = <<Opcode>>,
                           !.at = instruction,
                           !.taken = r.need]
    /\ UNCHANGED <<input, pc, status>>

NextInterrupt == Next \/ Interrupt \/ ExecuteInterrupted

SpecInterrupt == Init /\ [][NextInterrupt]_vars

\* programs about the decoder: one instruction for each opcode from RET to
\* DEFUNLOAD, and the bytes OP_END and OP_END + 1 at an opcode position
FeedAlphabet ==
    {<<OP_RET>>, <<OP_SUMSTACK>>, <<OP_STACKCLOSE>>, <<OP_SUPER>>, <<OP_CALL>>,
     <<OP_PUSHNUM>> \o EncodeNum(1), <<OP_PUSHSTR, 97, 0>>,
     <<OP_PUSHDEF>> \o DEF_table[1] \o <<0>>,
     <<OP_PUSHBOOL, 1>>, <<OP_EVAL, EVAL_EQUALS>>,
     <<OP_END>>, <<OP_END + 1>>}
    \cup {<<op>> \o EncodeInt(1) : op \in JumpOps}
    \cup {<<op>> \o EncodeInt(0) : op \in {OP_LOAD, OP_UNLOAD, OP_DEFUNLOAD}}

InitFeed == InitWith(Buffers(FeedAlphabet))

SpecFeed == InitFeed /\ [][Next]_vars

\* programs about CALL: at most MaxStack pushes, then at most MaxProg
\* instructions that rearrange the stack and call
CallArgs ==
    {<<OP_PUSHSTR, 97, 0>>, <<OP_PUSHSTR, 98, 0>>, <<OP_PUSHSTR, 99, 0>>,
     <<OP_PUSHNUM>> \o EncodeNum(0), <<OP_PUSHNUM>> \o EncodeNum(1),
     <<OP_PUSHBOOL, 1>>, <<OP_PUSHDEF>> \o DEF_table[1] \o <<0>>}

CallOps ==
    {<<OP_SUPER>>, <<OP_CALL>>, <<OP_SUMSTACK>>,
     <<OP_PUSHDEF>> \o DEF_table[1] \o <<0>>}

\* the buffers made of the signature, at most MaxStack instructions of
\* pushes, then at most MaxProg instructions of ops, and HALT
Programs(pushes, ops) ==
    {ALU_SIGNATURE \o Flatten(p) \o Flatten(q) \o <<OP_HALT>> :
        p \in UNION {[1..l -> pushes] : l \in 0..MaxStack},
        q \in UNION {[1..l -> ops] : l \in 0..MaxProg}}

InitCall == InitWith(Programs(CallArgs, CallOps))

\* a program without a jump executes each instruction at most once, and
\* an instruction pushes at most one value
StraightLine == Len(A.instructions.data)

NextCall ==
    Alu_start \/ ExecuteOpWithin(StraightLine, MaxNum, MaxStrLen) \/ ExecuteEnd \/ Close

SpecCall == InitCall /\ [][NextCall]_vars

\* programs about the order SUPER and CALL see: Strings pushed, then
\* instructions among SUPER, PUSHDEF "print" and CALL
RotateArgs == {<<OP_PUSHSTR, 97, 0>>, <<OP_PUSHSTR, 98, 0>>, <<OP_PUSHSTR, 99, 0>>}

InitRotate == InitWith(Programs(RotateArgs, CallOps \ {<<OP_SUMSTACK>>}))

SpecRotate == InitRotate /\ [][NextCall]_vars

\* the loop sample of main, lines 1203-1218, with the operand n for its
\* JFA: register 0 is set to 0, then incremented and compared with
\* LoopLimit
LoopLimit == 10

LoopProgram(n) ==
    ALU_SIGNATURE
    \o <<OP_PUSHNUM>> \o EncodeNum(0) \o <<OP_LOAD>> \o EncodeInt(0)
    \o <<OP_UNLOAD>> \o EncodeInt(0) \o <<OP_PUSHNUM>> \o EncodeNum(1)
    \o <<OP_SUMSTACK>> \o <<OP_LOAD>> \o EncodeInt(0)
    \o <<OP_UNLOAD>> \o EncodeInt(0) \o <<OP_PUSHNUM, 64, 36, 0, 0, 0, 0, 0, 0>>
    \o <<OP_EVAL, EVAL_GREATER>> \o <<OP_JFA>> \o EncodeInt(n)
    \o <<OP_RET, OP_HALT>>

\* two Strings compared with the mask eval, a JFA of operand n over
\* PUSHSTR "A", and RET
CompareProgram(s, t, eval, n) ==
    ALU_SIGNATURE
    \o <<OP_PUSHSTR>> \o s \o <<0>> \o <<OP_PUSHSTR>> \o t \o <<0>>
    \o <<OP_EVAL, eval>> \o <<OP_JFA>> \o EncodeInt(n)
    \o <<OP_PUSHSTR, 65, 0>> \o <<OP_RET, OP_HALT>>

CompareStrings == {<<72, 105>>, <<72, 97>>, <<72>>}

\* the characters of "Hello" and of "Foo"
Hello == <<72, 101, 108, 108, 111>>

Foo == <<70, 111, 111>>

\* the if/else sample of main: a Bool of byte b, a JTR of operand n over
\* PUSHSTR "Hello"; RET, then PUSHSTR "Foo"; RET
IfElseProgram(b, n) ==
    ALU_SIGNATURE
    \o <<OP_PUSHBOOL, b>> \o <<OP_JTR>> \o EncodeInt(n)
    \o <<OP_PUSHSTR>> \o Hello \o <<0, OP_RET>>
    \o <<OP_PUSHSTR>> \o Foo \o <<0, OP_RET, OP_HALT>>

InitSample ==
    InitWith({LoopProgram(n) : n \in (0 - LoopLimit - 1)..1}
             \cup {CompareProgram(s, t, eval, n) :
                     s \in CompareStrings, t \in CompareStrings,
                     eval \in {EVAL_EQUALS, EVAL_SMALLER, EVAL_GREATER},
                     n \in -1..1}
             \cup {IfElseProgram(b, n) : b \in {0, 1}, n \in 0..3})

NextSample ==
    \/ Alu_start
    \/ ExecuteRet
    \/ ExecuteJumpWithin(MaxStack, LoopLimit + 1, Len(Hello))
    \/ ExecuteOpWithin(MaxStack, LoopLimit + 1, Len(Hello))
    \/ ExecuteEnd
    \/ Close

SpecSample == InitSample /\ [][NextSample]_vars

(* --------------------- handlers called by a host ----------------------- *)
\* the addresses B references, in the order the lists are walked
RefSeq(B) ==
    [i \in 1..Len(B.stack.data) |-> B.stack.data[i].id]
    \o [i \in 1..Len(B.regs.data) |-> B.regs.data[i].var.id]
    \o [i \in 1..Len(B.garbage.data) |-> B.garbage.data[i].id]

\* addresses carry no meaning but their identity: the state is kept up to
\* a renaming of them, each address named by the rank of its first
\* occurrence in RefSeq (an allocation nothing references comes after them)
Rename(B) ==
    LET s     == RefSeq(B)
        first == [id \in Refs(B) \ {0} |->
                    CHOOSE p \in 1..Len(s) :
                        s[p] = id /\ \A q \in 1..(p - 1) : s[q] # id]
        n     == Cardinality(Refs(B) \ {0})
        rank  == [id \in (Refs(B) \cup B.heap) \cup {0} |->
                    IF id = 0 THEN 0
                    ELSE IF id \in Refs(B)
                    THEN Cardinality({j \in Refs(B) \ {0} : first[j] <= first[id]})
                    ELSE n + Cardinality({j \in B.heap \ Refs(B) : j <= id})]
        ren(v) == IF v = null THEN null ELSE [v EXCEPT !.id = rank[@]]
    IN  [B EXCEPT
           !.heap = {rank[id] : id \in @},
           !.stack.data = [i \in 1..Len(@) |-> ren(@[i])],
           !.regs.data = [i \in 1..Len(@) |-> [@[i] EXCEPT !.var = ren(@)]],
           !.garbage.data = [i \in 1..Len(@) |-> ren(@[i])]]

\* embedding code calls one handler on the state: any of its outcomes
Host(name, arg, outcomes) ==
    /\ pc = "host"
    /\ ~A.crashed
    /\ \E B \in outcomes :
          /\ Bounded(B)
          /\ A' = Rename(B)
    /\ last' = [NoOp EXCEPT !.op = name, !.arg = arg, !.peek = Val(Alu_get(A, 0))]
    /\ UNCHANGED <<input, instruction, pc, status, errors>>

HostPushnumber(nums) ==
    \E num \in nums : Host("Alu_pushnumber", <<num>>, Alu_pushnumber(Fresh(A), num))

HostPushstring(strs) ==
    \E str \in strs : Host("Alu_pushstring", str, Alu_pushstring(Fresh(A), str))

\* a direct call converts its argument to _Bool: 0 or 1
HostPushbool(bools) ==
    \E b \in bools : Host("Alu_pushbool", <<b>>, Alu_pushbool(Fresh(A), b))

HostPushdef(names) ==
    \E str \in names : Host("Alu_pushdef", str, Alu_pushdef(Fresh(A), str))

HostPopk == Host("Alu_popk", <<>>, {Alu_popk(Fresh(A))})

HostStackclose == Host("Alu_stackclose", <<>>, {Alu_stackclose(Fresh(A))})

HostSumstack == Host("Alu_sumstack", <<>>, Alu_sumstack(Fresh(A)))

HostEval(masks) ==
    \E eval \in masks : Host("Alu_eval", <<eval>>, Alu_eval(Fresh(A), eval))

HostSuper == Host("Alu_super", <<>>, Alu_super(Fresh(A)))

HostCall == Host("Alu_call", <<>>, Alu_call(Fresh(A)))

HostLoad(indices) ==
    \E k \in indices : Host("Alu_load", <<k>>, Alu_load(Fresh(A), k))

HostUnload(indices) ==
    \E k \in indices : Host("Alu_unload", <<k>>, Alu_unload(Fresh(A), k))

HostDefunload(indices) ==
    \E k \in indices : Host("Alu_defunload", <<k>>, Alu_defunload(Fresh(A), k))

HostClose ==
    /\ pc = "host"
    /\ ~A.crashed
    /\ LET r == Alu_close(Fresh(A))
       IN  /\ A' = r.A
           /\ status' = IF r.A.crashed THEN status ELSE r.res
    /\ pc' = "exit"
    /\ last' = [NoOp EXCEPT !.op = "Alu_close"]
    /\ UNCHANGED <<input, instruction, errors>>

InitHost ==
    /\ A = Alu_newstate
    /\ input = <<>>
    /\ instruction = 0
    /\ pc = "host"
    /\ status = -1
    /\ errors = {}
    /\ last = NoOp

\* the register indices the host uses
RegIndices == {0, 1}

\* the stack handlers on a range of values
NextStack ==
    \/ HostPushnumber({1})
    \/ HostPushstring({<<97>>, <<98>>})
    \/ HostPushbool({0, 1})
    \/ HostPushdef({DEF_table[1], <<120>>})
    \/ HostPopk
    \/ HostStackclose
    \/ HostSumstack
    \/ HostSuper
    \/ HostClose

SpecStack == InitHost /\ [][NextStack]_vars

\* the register handlers, with one value of each type
NextRegs ==
    \/ HostPushnumber({1})
    \/ HostPushstring({<<97>>})
    \/ HostPushbool({1})
    \/ HostPushdef({DEF_table[1]})
    \/ HostPopk
    \/ HostStackclose
    \/ HostLoad(RegIndices)
    \/ HostUnload(RegIndices)
    \/ HostDefunload(RegIndices)
    \/ HostClose

SpecRegs == InitHost /\ [][NextRegs]_vars

\* the operand bytes of EVAL the host uses: every combination of the three
\* bits of alu_Eval, a byte with none of them and the byte with all bits
EvalBytes == (0..(EVAL_EQUALS + EVAL_SMALLER + EVAL_GREATER)) \cup {2^3, 2^8 - 1}

\* Alu_eval on stacks of Numbers, Strings, Bools and functions
NextEval ==
    \/ HostPushnumber({0, 1, BigNum})
    \/ HostPushstring({<<97>>, <<98>>})
    \/ HostPushbool({0, 1})
    \/ HostPushdef({DEF_table[1]})
    \/ HostPopk
    \/ HostEval(EvalBytes)
    \/ HostClose

SpecEval == InitHost /\ [][NextEval]_vars

(* =============================== claims ================================ *)
\* the values a list of variables holds, index 0 first
Vals(list) == [i \in 1..Len(list.data) |-> Val(list.data[i])]

\* the handlers that push onto the operand stack
PushOps ==
    {"Alu_pushnumber", "Alu_pushstring", "Alu_pushbool", "Alu_pushdef",
     "Alu_unload"}

\* the value the push recorded in l was asked to put on the stack of B
Pushed(B, l) ==
    CASE l.op = "Alu_pushnumber" -> [type |-> ALU_NUMBER, data |-> l.arg]
      [] l.op = "Alu_pushstring" -> [type |-> ALU_STRING, data |-> l.arg]
      [] l.op = "Alu_pushbool" -> [type |-> ALU_BOOL, data |-> l.arg]
      [] l.op = "Alu_pushdef" ->
            [type |-> ALU_ABSTRACT,
             data |-> <<CHOOSE n \in 1..Len(DEF_table) : DEF_table[n] = l.arg>>]
      [] l.op = "Alu_unload" -> Val(B.regs.data[RegFind(B, l.arg[1])].var)

\* this step is a push that returned without an error
PushDone ==
    /\ pc = "host"
    /\ last'.op \in PushOps
    /\ ~A'.crashed
    /\ A'.raised = {}

\* C1 as stated: after any push, whatever the stack held before, Alu_get
\* with index 0 returns the value just pushed
C1_PeekNewest ==
    [][PushDone => Val(Alu_get(A', 0)) = Pushed(A, last')]_vars

\* C1 amended: a push that returns without an error appends: the value
\* pushed is at the last index and the former elements keep their indices,
\* so Alu_get with index 0 returns the value pushed only when the stack was
\* empty.  (A push onto a stack whose head has a null top, as Alu_popk
\* leaves it, is a store through a null pointer: it does not return.)
C1_PushAppends ==
    [][PushDone => Vals(A'.stack) = Append(Vals(A.stack), Pushed(A, last'))]_vars

\* a push has completed on a stack that held two values, and index 0 holds
\* another value than the one pushed
C1_Witness ==
    /\ last.op = "Alu_unload"
    /\ ~A.crashed
    /\ A.raised = {}
    /\ Len(A.stack.data) = 3
    /\ Val(Alu_get(A, 0)) # Val(Alu_get(A, 2))

\* this step executes a jump with opcode op
JumpStep(op) == Running /\ Opcode = op /\ last'.op = "Alu_jump"

\* the operand of the jump under the cursor
Operand == bytesint(SubSeq(A.instructions.data[instruction], 2, 5))

\* C2: JEM is taken exactly when the stack is empty and JNEM exactly when
\* it is not
C2_EmptinessJumps ==
    [][/\ JumpStep(OP_JEM) => (last'.taken <=> A.stack.data = <<>>)
       /\ JumpStep(OP_JNEM) => (last'.taken <=> A.stack.data # <<>>)]_vars

\* C3: a taken jump with operand 0 at index i continues at index i + 2 (at
\* the end of the list when there is no such record) and never moves the
\* cursor backward
C3_JumpZeroSkipsOne ==
    [][\A op \in JumpOps :
          JumpStep(op) /\ Operand = 0 /\ last'.taken /\ ~A'.crashed =>
             instruction' = IF instruction + 2 <= Len(A.instructions.data)
                            THEN instruction + 2 ELSE 0]_vars

\* the steps that execute an instruction with an effect
EffectOps == {"executeop", "Alu_jump"}

\* C4: once a handler has reported an error, Alu_execute executes no
\* further instruction
C4_HaltOnError ==
    [][pc = "execute" /\ errors # {} => last'.op \notin EffectOps]_vars

\* C5: the status Alu_close returns is 0 when no error was raised during
\* the run and 1 when one was
C5_ExitStatus ==
    pc = "exit" /\ ~A.crashed => status = IF errors = {} THEN 0 ELSE 1

\* C6: LOAD k on a stack whose index 0 holds v, followed by UNLOAD k, ends
\* with no error and with the stack holding exactly one element equal to v
C6_LoadUnload ==
    [][(/\ pc = "host"
        /\ last.op = "Alu_load"
        /\ last.peek # Val(null)
        /\ last'.op = "Alu_unload"
        /\ last'.arg = last.arg)
       => /\ ~A'.crashed
          /\ A.raised = {}
          /\ A'.raised = {}
          /\ Vals(A'.stack) = <<last.peek>>]_vars

\* the index and the value of each register slot, the head first
Slots(list) ==
    [i \in 1..Len(list.data) |->
        [index |-> list.data[i].index, val |-> Val(list.data[i].var)]]

\* the addresses the register slots reference
RegIds(B) == {B.regs.data[i].var.id : i \in 1..Len(B.regs.data)}

\* seq without its element at position r
Without(seq, r) == SubSeq(seq, 1, r - 1) \o SubSeq(seq, r + 1, Len(seq))

\* C7: DEFUNLOAD k, for a register k that holds a value and a stack that
\* can be pushed onto, pushes that value, removes exactly the slot of
\* index k, leaves every other slot as it was, and leaves the value
\* referenced by the stack only
C7_DefunloadRemovesSlot ==
    [][\A k \in RegIndices :
          LET r == RegFind(A, k)
          IN  (/\ pc = "host"
               /\ last'.op = "Alu_defunload"
               /\ last'.arg = <<k>>
               /\ r # 0
               /\ A.regs.data[r].var # null
               /\ A.stack.data = <<>> \/ A.stack.top # 0)
              => /\ ~A'.crashed
                 /\ A'.raised = {}
                 /\ Vals(A'.stack) = Append(Vals(A.stack), Val(A.regs.data[r].var))
                 /\ Slots(A'.regs) = Without(Slots(A.regs), r)
                 /\ A'.stack.data[Len(A'.stack.data)].id \notin RegIds(A')]_vars

\* C8: a taken jump with operand n # 0 at index i continues at index
\* i + n + 1 when n > 0 and at i + n - 1 when n < 0; when that index is
\* outside the list, the cursor is null and OUTJM is raised; after OUTJM no
\* instruction is executed.  (With the operands INT_MAX and INT_MIN the bias
\* overflows; every outcome of JumpWalk then leaves the list.)
C8_JumpTarget ==
    [][/\ \A op \in JumpOps :
             JumpStep(op) /\ Operand # 0 /\ last'.taken =>
                LET n      == Operand
                    i      == instruction
                    len    == Len(A.instructions.data)
                    inside == IF n > 0 THEN n <= len - i - 1 ELSE n >= 2 - i
                IN  IF inside
                    THEN /\ instruction' = i + n + (IF n > 0 THEN 1 ELSE -1)
                         /\ AERR_OUTJM \notin A'.raised
                    ELSE /\ instruction' = 0
                         /\ AERR_OUTJM \in A'.raised
       /\ pc = "execute" /\ AERR_OUTJM \in errors =>
             last'.op \notin EffectOps \cup {"RET"}]_vars

\* a jump with operand -1 at the third record was taken and execution
\* continues at the first record
C8_Witness ==
    /\ last.op = "Alu_jump"
    /\ last.taken
    /\ last.arg[2] = -1
    /\ last.at = 3
    /\ instruction = 1
    /\ pc = "execute"

\* C9: JTR is taken exactly when index 0 holds a Bool that is true (a byte
\* other than 0), JFA exactly when index 0 holds a Bool that is false; a
\* jump that is not taken falls through to the next instruction
C9_BoolJumps ==
    [][LET isbool == A.stack.data # <<>> /\ Head(A.stack.data).type = ALU_BOOL
       IN  /\ JumpStep(OP_JTR) =>
                (last'.taken <=> (isbool /\ Head(A.stack.data).data[1] # 0))
           /\ JumpStep(OP_JFA) =>
                (last'.taken <=> (isbool /\ Head(A.stack.data).data[1] = 0))
           /\ (JumpStep(OP_JTR) \/ JumpStep(OP_JFA)) /\ ~last'.taken =>
                instruction' = NextOf(A, instruction)]_vars

\* C10: SUMSTACK on a stack of depth at least 2 whose elements a at index 0
\* and b at index 1 are both Numbers, both Bools or both Strings leaves a
\* stack of depth 1 holding the Number a + b, the Bool (a or b), or the
\* String a followed by b.  The Bools of SpecStack are those Alu_pushbool
\* stores from a _Bool argument, the bytes 0 and 1
C10_SumstackResult ==
    [][LET a == Alu_get(A, 0)
           b == Alu_get(A, 1)
       IN  (/\ pc = "host"
            /\ last'.op = "Alu_sumstack"
            /\ Stack_len(A.stack) >= 2
            /\ a.type = b.type
            /\ a.type \in {ALU_NUMBER, ALU_BOOL, ALU_STRING})
           => /\ ~A'.crashed
              /\ A'.raised = {}
              /\ Vals(A'.stack) =
                    << [type |-> a.type,
                        data |-> CASE a.type = ALU_NUMBER ->
                                        <<a.data[1] + b.data[1]>>
                                   [] a.type = ALU_BOOL ->
                                        <<IF a.data[1] # 0 \/ b.data[1] # 0
                                          THEN 1 ELSE 0>>
                                   [] a.type = ALU_STRING ->
                                        a.data \o b.data] >>]_vars

\* SUMSTACK has just replaced a stack of depth 3 whose index 0 held a
\* String by the String of two characters "ab"
C10_Witness ==
    /\ last.op = "Alu_sumstack"
    /\ last.peek = [type |-> ALU_STRING, data |-> <<97>>]
    /\ Vals(A.stack) = << [type |-> ALU_STRING, data |-> <<97, 98>>] >>

\* C11: SUMSTACK on two values of the same tag, that tag being none of
\* Number, Bool and String, raises TYPES and pushes no result value
C11_SumOtherTag ==
    [][LET a == Alu_get(A, 0)
           b == Alu_get(A, 1)
       IN  (/\ pc = "host"
            /\ last'.op = "Alu_sumstack"
            /\ Stack_len(A.stack) >= 2
            /\ a.type = b.type
            /\ a.type \notin {ALU_NUMBER, ALU_BOOL, ALU_STRING})
           => /\ AERR_TYPES \in A'.raised
              /\ Vals(A'.stack) \in {Vals(A.stack), <<>>}]_vars

\* this step is Alu_eval on a stack of depth at least 2
EvalStep == pc = "host" /\ last'.op = "Alu_eval" /\ Stack_len(A.stack) >= 2

\* bit number n of the byte m
Bit(m, n) == (m \div 2^n) % 2 = 1

\* C12: for Numbers a at index 0 and b at index 1 and any operand byte m,
\* EVAL m pushes Bool true exactly when (bit 0 of m and a = b) or (bit 1 of
\* m and a < b) or (bit 2 of m and a > b), whatever the magnitude of a - b
C12_EvalNumbers ==
    [][LET a == Alu_get(A, 0)
           b == Alu_get(A, 1)
           m == last'.arg[1]
           expected == \/ Bit(m, 0) /\ a.data[1] = b.data[1]
                       \/ Bit(m, 1) /\ a.data[1] < b.data[1]
                       \/ Bit(m, 2) /\ a.data[1] > b.data[1]
       IN  EvalStep /\ a.type = ALU_NUMBER /\ b.type = ALU_NUMBER
           => /\ ~A'.crashed
              /\ A'.stack.data # <<>>
              /\ Val(A'.stack.data[Len(A'.stack.data)]) =
                    [type |-> ALU_BOOL, data |-> <<IF expected THEN 1 ELSE 0>>]]_vars

\* C13: EVAL on a stack of depth at least 2 whose elements at index 0 and
\* index 1 have different tags raises no error, for every operand byte, and
\* leaves a stack of depth 1 holding Bool false
C13_EvalMismatch ==
    [][EvalStep /\ Alu_get(A, 0).type # Alu_get(A, 1).type
       => /\ ~A'.crashed
          /\ A'.raised = {}
          /\ A'.errno = 0
          /\ Vals(A'.stack) = << [type |-> ALU_BOOL, data |-> <<0>>] >>]_vars

\* EVAL with the three bits of alu_Eval set has just left Bool false, on a
\* stack whose index 0 held a String: the tags differed
C13_Witness ==
    /\ last.op = "Alu_eval"
    /\ last.arg = <<EVAL_EQUALS + EVAL_SMALLER + EVAL_GREATER>>
    /\ last.peek.type = ALU_STRING
    /\ ~A.crashed
    /\ A.raised = {}
    /\ Vals(A.stack) = << [type |-> ALU_BOOL, data |-> <<0>>] >>

\* this step is the decoding of the input by Alu_start
FeedStep == pc = "start" /\ pc' = "execute"

\* the bytes Alu_start hands to Alu_feed
Fed == strcut(input, Len(ALU_SIGNATURE), Len(input))

\* the offset in the buffer at which record i of list starts, the records
\* being laid end to end
Offset(list, i) == Len(Flatten(SubSeq(list, 1, i - 1)))

\* the operand width the opcode table gives to op, read at offset o of ptr
TableWidth(op, ptr, o) ==
    CASE op \in {OP_RET, OP_SUMSTACK, OP_STACKCLOSE, OP_SUPER, OP_CALL} -> 0
      [] op \in JumpOps \cup {OP_LOAD, OP_UNLOAD, OP_DEFUNLOAD} -> 4
      [] op = OP_PUSHNUM -> 8
      [] op \in {OP_PUSHBOOL, OP_EVAL} -> 1
      [] op \in {OP_PUSHSTR, OP_PUSHDEF} -> strlen(ptr, o + 1) + 1

\* C14: for every opcode from RET to DEFUNLOAD the decoder emits one record
\* of 1 + width bytes, a copy of the bytes at the opcode's position, and
\* reads the next opcode right after it, width being the one of the table
C14_RecordWidths ==
    [][FeedStep =>
         LET list == A'.instructions.data
         IN  \A i \in 1..Len(list) :
                LET o  == Offset(list, i)
                    op == list[i][1]
                IN  op \in OP_RET..OP_DEFUNLOAD =>
                       /\ Len(list[i]) = 1 + TableWidth(op, Fed, o)
                       /\ o + Len(list[i]) <= Len(Fed)
                       /\ list[i] = SubSeq(Fed, o + 1, o + Len(list[i]))]_vars

\* C15: the decoder stops at the first opcode position whose byte is HALT
\* or is OP_END or more: no record of the list starts with such a byte
C15_DecoderStops ==
    [][FeedStep =>
         LET list == A'.instructions.data
             end  == Len(Flatten(list))
         IN  /\ \A i \in 1..Len(list) : list[i][1] \in (OP_HALT + 1)..(OP_END - 1)
             /\ end < Len(Fed) => Fed[end + 1] = OP_HALT \/ Fed[end + 1] >= OP_END]_vars

\* the offset of the HALT that ends the instructions of ptr read from
\* offset n with the widths of the table, -1 when a byte at an opcode
\* position is no opcode or the buffer ends before a HALT
RECURSIVE HaltOffset(_, _)
HaltOffset(ptr, n) ==
    IF n >= Len(ptr) THEN -1
    ELSE IF ptr[n + 1] = OP_HALT THEN n
    ELSE IF ptr[n + 1] \notin OP_RET..OP_DEFUNLOAD THEN -1
    ELSE HaltOffset(ptr, n + 1 + TableWidth(ptr[n + 1], ptr, n))

\* C16: for a well-formed buffer, instructions followed by HALT, the
\* records of the decoded list laid end to end are the bytes of the buffer
\* before the HALT, and the previous links reverse the next links
C16_RoundTrip ==
    [][FeedStep /\ HaltOffset(Fed, 0) = Len(Fed) - 1 =>
         LET list == A'.instructions.data
         IN  /\ Flatten(list) = SubSeq(Fed, 1, Len(Fed) - 1)
             /\ \A i \in 1..Len(list) :
                   /\ i > 1 => NextOf(A', PreviousOf(A', i)) = i
                   /\ i < Len(list) => PreviousOf(A', NextOf(A', i)) = i]_vars

\* C17: an executed opcode indexes F within its bounds and runs the handler
\* F names for it, or nothing when F names none; an executed DEFUNLOAD with
\* operand k runs Alu_defunload with k
C17_Dispatch ==
    [][Running /\ last'.op = "executeop" =>
         LET rec == A.instructions.data[instruction]
         IN  /\ Opcode \in DOMAIN F
             /\ Opcode = OP_DEFUNLOAD =>
                   /\ Len(rec) = 1 + TableWidth(OP_DEFUNLOAD, rec, 0)
                   /\ A' \in Alu_defunload(Fresh(A), bytesint(SubSeq(rec, 2, 5)))
             /\ Opcode # OP_DEFUNLOAD =>
                   A' \in IF F[Opcode].func = "null" THEN {Fresh(A)}
                          ELSE Alu_executeop(Fresh(A), Opcode, rec)]_vars

(* -------------------------------- CALL --------------------------------- *)
\* the step executes a CALL instruction
CallStep == Running /\ last'.op = "executeop" /\ Opcode = OP_CALL

\* C18: CALL on a non-empty stack moves the value at index 0 from the
\* stack to the end of the garbage list, where it stays allocated; when the
\* value is Abstract its host function is invoked exactly once, on the
\* rest of the stack, and otherwise TYPES is raised and no function is
\* invoked; no step but Alu_close frees or removes a value of the garbage
\* list.
C18_CallPops ==
    [][/\ CallStep /\ A.stack.data # <<>> =>
            LET var == Head(A.stack.data)
            IN  /\ A'.garbage.data = Append(A.garbage.data, var)
                /\ var.id \in A'.heap
                /\ var.type = ALU_ABSTRACT =>
                      /\ Len(A'.called) = 1
                      /\ A'.called[1].f = var.data
                      /\ A'.called[1].stack = Tail(Vals(A.stack))
                      /\ AERR_TYPES \notin A'.raised
                /\ var.type # ALU_ABSTRACT =>
                      /\ A'.called = <<>>
                      /\ AERR_TYPES \in A'.raised
                      /\ Vals(A'.stack) = Tail(Vals(A.stack))
       /\ pc' # "exit" =>
            /\ Len(A'.garbage.data) >= Len(A.garbage.data)
            /\ SubSeq(A'.garbage.data, 1, Len(A.garbage.data)) = A.garbage.data
            /\ \A i \in 1..Len(A'.garbage.data) : A'.garbage.data[i].id \in A'.heap
       /\ pc' = "exit" /\ ~A'.crashed =>
            /\ A'.garbage.data = <<>>
            /\ \A i \in 1..Len(A.garbage.data) : A.garbage.data[i].id \notin A'.heap]_vars

\* the value a push instruction leaves on the stack
ArgValue(rec) ==
    CASE rec[1] = OP_PUSHNUM ->
            [type |-> ALU_NUMBER, data |-> <<bytesdouble(SubSeq(rec, 2, 9))>>]
      [] rec[1] = OP_PUSHSTR ->
            [type |-> ALU_STRING, data |-> SubSeq(rec, 2, Len(rec) - 1)]
      [] rec[1] = OP_PUSHBOOL -> [type |-> ALU_BOOL, data |-> <<rec[2]>>]
      [] OTHER -> [type |-> ALU_ABSTRACT, data |-> <<1>>]

PushDefPrint == <<OP_PUSHDEF>> \o DEF_table[1] \o <<0>>

\* the instruction at position i is the CALL of the call idiom: the
\* program begins with i - 3 >= 1 pushes, then PUSHDEF "print" and SUPER
CallIdiom(i) ==
    LET list == A.instructions.data
    IN  /\ i >= 4
        /\ list[i][1] = OP_CALL
        /\ list[i - 1][1] = OP_SUPER
        /\ list[i - 2] = PushDefPrint
        /\ \A j \in 1..(i - 3) :
              \/ list[j][1] \in {OP_PUSHNUM, OP_PUSHSTR, OP_PUSHBOOL}
              \/ list[j] = PushDefPrint

\* C19: the CALL of the call idiom invokes print once, on a stack that
\* holds the k arguments in the order they were pushed, raises no error,
\* returns, and leaves the stack empty.
C19_CallIdiom ==
    [][CallStep /\ CallIdiom(instruction) =>
          /\ ~A'.crashed
          /\ errors' = {}
          /\ A'.called = << [f |-> <<1>>,
                             stack |-> [j \in 1..(instruction - 3) |->
                                          ArgValue(A.instructions.data[j])]] >>
          /\ A'.stack.data = <<>>]_vars

\* the program PUSHSTR "a"; PUSHSTR "b"; PUSHSTR "c"; SUPER;
\* PUSHDEF "print"; CALL
SuperThenCall ==
    ALU_SIGNATURE \o <<OP_PUSHSTR, 97, 0, OP_PUSHSTR, 98, 0, OP_PUSHSTR, 99, 0>>
    \o <<OP_SUPER>> \o PushDefPrint \o <<OP_CALL, OP_HALT>>

\* C20: the run of that program raises no error, and its CALL, and no
\* other instruction, writes the lines a, c, b in this order.
C20_SuperThenCall ==
    [][input = SuperThenCall =>
          /\ errors' = {}
          /\ ~A'.crashed
          /\ A'.out = IF CallStep THEN << <<97>>, <<99>>, <<98>> >> ELSE <<>>]_vars

\* C20, as the code does it: SUPER brings "c" to index 0 and PUSHDEF
\* appends the Abstract after "b"; CALL pops the String "c" into the
\* garbage list and raises TYPES, print is not invoked and no line is
\* written; no other instruction of the program raises an error.
C20_CallPopsString ==
    [][input = SuperThenCall =>
          /\ ~A'.crashed
          /\ A'.out = <<>>
          /\ A'.called = <<>>
          /\ errors' = IF CallStep THEN {AERR_TYPES} ELSE errors
          /\ CallStep =>
                /\ Vals(A'.stack) = << [type |-> ALU_STRING, data |-> <<97>>],
                                       [type |-> ALU_STRING, data |-> <<98>>],
                                       [type |-> ALU_ABSTRACT, data |-> <<1>>] >>
                /\ Vals(A'.garbage) = << [type |-> ALU_STRING, data |-> <<99>>] >>]_vars

\* the run of the program has executed its CALL and has been closed
C20_Witness ==
    /\ input = SuperThenCall
    /\ pc = "exit"
    /\ ~A.crashed
    /\ errors = {AERR_TYPES}

(* ------------------------------ samples -------------------------------- *)
\* the register bank holds exactly register 0, with the Number n
RegisterZero(B, n) ==
    Slots(B.regs) = << [index |-> 0, val |-> [type |-> ALU_NUMBER, data |-> <<n>>]] >>

\* C21: when the run of the loop program with JFA -10 has finished, no
\* error has been raised and register 0 holds Number 11.
C21_LoopSum ==
    input = LoopProgram(0 - LoopLimit) /\ pc = "returned" =>
        /\ errors = {}
        /\ RegisterZero(A, LoopLimit + 1)

\* C21, as the code does it: on the first pass register 0 holds Number 1
\* and EVAL pushes false; the JFA -10, the tenth instruction, is taken and
\* walks eleven links back, out of the list: OUTJM is raised, the cursor is
\* null and the run ends there, register 0 holding Number 1.
C21_LoopLeavesList ==
    input = LoopProgram(0 - LoopLimit) =>
        /\ ~A.crashed
        /\ errors \subseteq {AERR_OUTJM}
        /\ last.op = "Alu_jump" =>
              /\ last.at = LoopLimit
              /\ last.taken
              /\ instruction = 0
              /\ A.raised = {AERR_OUTJM}
        /\ pc = "returned" =>
              /\ last.op = "return"
              /\ errors = {AERR_OUTJM}
              /\ RegisterZero(A, 1)
              /\ A.stack.data = <<>>

\* the run of the loop program has ended
C21_Witness ==
    /\ input = LoopProgram(0 - LoopLimit)
    /\ pc = "returned"
    /\ errors = {AERR_OUTJM}
    /\ RegisterZero(A, 1)

\* the program PUSHSTR "Hi"; PUSHSTR "Hi"; EVAL 01; JFA +0; PUSHSTR "A"; RET
HiHi == CompareProgram(<<72, 105>>, <<72, 105>>, EVAL_EQUALS, 0)

\* C22: in the run of that program EVAL leaves exactly Bool true on the
\* stack, the JFA is not taken, consumes the Bool and moves to PUSHSTR "A",
\* and the run ends at RET with the stack holding exactly the String "A";
\* no error is raised.
C22_StringsEqual ==
    input = HiHi =>
        /\ ~A.crashed
        /\ errors = {}
        /\ last.op = "executeop" /\ last.arg = <<OP_EVAL>> =>
              Vals(A.stack) = << [type |-> ALU_BOOL, data |-> <<1>>] >>
        /\ last.op = "Alu_jump" =>
              /\ ~last.taken
              /\ A.stack.data = <<>>
              /\ instruction = last.at + 1
              /\ Opcode = OP_PUSHSTR
        /\ last.op = "executeop" /\ last.arg = <<OP_PUSHSTR>> /\ last.at > 2 =>
              Vals(A.stack) = << [type |-> ALU_STRING, data |-> <<65>>] >>
        /\ pc = "returned" =>
              /\ last.op = "RET"
              /\ Vals(A.stack) = << [type |-> ALU_STRING, data |-> <<65>>] >>

\* the run has passed the EVAL, the JFA and PUSHSTR "A" and is at RET
C22_Witness ==
    /\ input = HiHi
    /\ pc = "returned"
    /\ last.op = "RET"
    /\ last.at = 6
    /\ Vals(A.stack) = << [type |-> ALU_STRING, data |-> <<65>>] >>

(* ------------------------------- SUPER --------------------------------- *)
\* the outcomes of n consecutive calls of Alu_super
RECURSIVE SuperTimes(_, _)
SuperTimes(B, n) ==
    IF n = 0 THEN {B}
    ELSE UNION {SuperTimes(C, n - 1) : C \in Alu_super(B)}

\* C23: SUPER on a stack of depth N >= 2 brings the element at index N-1
\* to index 0 and moves every other element one index down, in the same
\* order; no element is lost or added; N consecutive SUPERs give the stack
\* back.
C23_SuperRotates ==
    [][last'.op = "Alu_super" /\ Len(A.stack.data) >= 2 =>
          LET N == Len(A.stack.data)
          IN  /\ ~A'.crashed
              /\ A'.raised = {}
              /\ Vals(A'.stack) =
                    <<Val(A.stack.data[N])>> \o SubSeq(Vals(A.stack), 1, N - 1)
              /\ \A B \in SuperTimes(Fresh(A), N) :
                    ~B.crashed /\ Vals(B.stack) = Vals(A.stack)]_vars

\* the slots of a register list whose index is not k, the head first
OtherSlots(list, k) == SelectSeq(Slots(list), LAMBDA s : s.index # k)

\* the values the register list holds for index k
SlotsOf(list, k) == SelectSeq(Slots(list), LAMBDA s : s.index = k)

\* C24: LOAD k on a non-empty stack whose index-0 value v is a Number, a
\* Bool or a String leaves the stack empty, leaves register k holding a
\* copy of v, and leaves every register of another index unchanged
C24_LoadFrame ==
    [][(/\ last'.op = "Alu_load"
        /\ A.stack.data # <<>>
        /\ Head(A.stack.data).type \in {ALU_NUMBER, ALU_BOOL, ALU_STRING})
       => LET k == last'.arg[1]
          IN  /\ ~A'.crashed
              /\ A'.raised = {}
              /\ A'.stack.data = <<>>
              /\ SlotsOf(A'.regs, k) =
                    << [index |-> k, val |-> Val(Head(A.stack.data))] >>
              /\ OtherSlots(A'.regs, k) = OtherSlots(A.regs, k)]_vars

\* C25: after any sequence of LOAD, UNLOAD and DEFUNLOAD, no two slots of
\* the register bank have the same index
C25_UniqueIndices ==
    ~A.crashed =>
        \A i, j \in 1..Len(A.regs.data) :
            i # j => A.regs.data[i].index # A.regs.data[j].index

\* register 0, loaded before register 1, has just been loaded again
C25_Witness ==
    /\ ~A.crashed
    /\ last.op = "Alu_load"
    /\ last.arg = <<0>>
    /\ A.raised = {}
    /\ [i \in 1..Len(A.regs.data) |-> A.regs.data[i].index] = <<0, 1>>

\* C26: when the cursor reaches a RET, Alu_execute returns at once: no
\* instruction after it is executed, and the stack, the registers, the
\* garbage list and the instruction list are what they were before the RET
C26_RetReturns ==
    [][/\ (Running /\ Opcode = OP_RET)
            => /\ last'.op = "RET"
               /\ pc' = "returned"
               /\ instruction' = instruction
               /\ A' = A
       /\ pc = "returned" => last'.op = "Alu_close"]_vars

\* Alu_execute has returned on a RET that another instruction follows, the
\* stack holding a value
C26_Witness ==
    /\ pc = "returned"
    /\ last.op = "RET"
    /\ Opcode = OP_RET
    /\ NextOf(A, instruction) # 0
    /\ A.stack.data # <<>>

\* C27: the SIGINT handler may run at any point of the execution and sets
\* the interrupt flag; once it has run, at most the instruction in progress
\* completes, no further instruction is dispatched, and Alu_execute returns
C27_Interrupt ==
    [][/\ (last'.op = "SIGINT" => A'.errno # 0)
       /\ (A.sigint /\ pc = "execute" /\ ~A.crashed)
             => pc' = "returned" /\ A' = A]_vars

\* C28: the payload of an Abstract, a host function pointer, is never
\* passed to free by any operation, in any reachable state
C28_AbstractNotFreed == ~A.fnfreed

\* the addresses the stack, the register and the garbage slots hold
Owned(B) ==
    [i \in 1..Len(B.stack.data) |-> B.stack.data[i].id]
    \o [i \in 1..Len(B.regs.data) |-> B.regs.data[i].var.id]
    \o [i \in 1..Len(B.garbage.data) |-> B.garbage.data[i].id]

\* C29: in every reachable state each value object is referenced by at most
\* one slot among those of the stack, the registers and the garbage list,
\* every register slot holds a value, and Alu_close frees every owned
\* object exactly once
C29_SingleOwner ==
    /\ (pc # "exit" /\ ~A.crashed)
          => /\ \A i \in 1..Len(A.regs.data) : A.regs.data[i].var # null
             /\ \A i, j \in 1..Len(Owned(A)) :
                   i # j => Owned(A)[i] # Owned(A)[j]
    /\ pc = "exit" => ~A.crashed /\ A.heap = {}

\* the handlers that raise on a failed precondition, on stacks of Numbers
\* and of the Bools EVAL leaves, and a bank of two registers of which the
\* second is read
NextFail ==
    \/ HostPushnumber({1})
    \/ HostPushdef({<<120>>})
    \/ HostSumstack
    \/ HostEval({EVAL_EQUALS})
    \/ HostSuper
    \/ HostLoad(RegIndices)
    \/ HostUnload({1})
    \/ HostDefunload({1})
    \/ HostClose

SpecFail == InitHost /\ [][NextFail]_vars

\* the error a handler raises for the precondition that fails in the state
\* it is called in, 0 when none fails; two values have differing tags when
\* both are live objects and their types differ
FailedPrecondition(op, arg) ==
    CASE op = "Alu_sumstack" ->
            IF Len(A.stack.data) < 2 THEN AERR_STKLN
            ELSE IF /\ Valid(A, A.stack.data[1])
                    /\ Valid(A, A.stack.data[2])
                    /\ A.stack.data[1].type # A.stack.data[2].type
                 THEN AERR_TYPES
            ELSE 0
      [] op = "Alu_eval" -> IF A.stack.data = <<>> THEN AERR_STKLN ELSE 0
      [] op = "Alu_super" -> IF Len(A.stack.data) < 2 THEN AERR_STKLN ELSE 0
      [] op = "Alu_load" -> IF A.stack.data = <<>> THEN AERR_STKLN ELSE 0
      [] op \in {"Alu_unload", "Alu_defunload"} ->
            IF \A i \in 1..Len(A.regs.data) : A.regs.data[i].index # arg[1]
            THEN AERR_NOREG ELSE 0
      [] op = "Alu_pushdef" ->
            IF \A n \in 1..Len(DEF_table) : DEF_table[n] # arg
            THEN AERR_NOFND ELSE 0
      [] OTHER -> 0

\* C30: a handler whose precondition fails reports the named error and
\* changes nothing: the stack and the register bank are as they were
C30_FailureChangesNothing ==
    [][FailedPrecondition(last'.op, last'.arg) # 0
         => /\ ~A'.crashed
            /\ A'.raised = {FailedPrecondition(last'.op, last'.arg)}
            /\ A'.stack = A.stack
            /\ A'.regs = A.regs
            /\ A'.garbage = A.garbage
            /\ A'.heap = A.heap]_vars

\* SUMSTACK has just raised TYPES on a Bool and a Number, the register bank
\* holding a value
C30_Witness ==
    /\ last.op = "Alu_sumstack"
    /\ ~A.crashed
    /\ A.raised = {AERR_TYPES}
    /\ [i \in 1..Len(A.stack.data) |-> A.stack.data[i].type] = <<ALU_BOOL, ALU_NUMBER>>
    /\ A.regs.data # <<>>

\* C31: a jump instruction, taken or not, removes exactly the value at
\* index 0 from a non-empty stack, keeps the other elements in their order,
\* leaves an empty stack empty and leaves the register bank unchanged; a
\* jump that is not taken moves the cursor to the next instruction
C31_JumpPops ==
    [][\A op \in JumpOps :
          JumpStep(op) =>
             /\ ~A'.crashed
             /\ Vals(A'.stack) = IF A.stack.data = <<>> THEN <<>>
                                 ELSE Tail(Vals(A.stack))
             /\ Slots(A'.regs) = Slots(A.regs)
             /\ ~last'.taken => instruction' = NextOf(A, instruction)]_vars

\* a jump that was not taken, the third and last record of its program,
\* has popped index 0 of a stack of two values: the String stays
C31_Witness ==
    /\ last.op = "Alu_jump"
    /\ ~last.taken
    /\ last.at = 3
    /\ instruction = 0
    /\ Vals(A.stack) = << [type |-> ALU_STRING, data |-> <<97>>] >>
    /\ ~A.crashed

\* C32: for b false and b true, the program PUSHBOOL b; JTR +2;
\* PUSHSTR "Hello"; RET; PUSHSTR "Foo"; RET ends with the condition
\* consumed and the stack holding exactly one String, "Hello" when b is
\* false and "Foo" when b is true
C32_IfElse ==
    \A b \in {0, 1} :
       input = IfElseProgram(b, 2)
          => /\ ~A.crashed
             /\ errors = {}
             /\ pc = "returned"
                   => /\ last.op = "RET"
                      /\ Vals(A.stack) =
                            << [type |-> ALU_STRING,
                                data |-> IF b = 0 THEN Hello ELSE Foo] >>

\* the sample whose condition is true has returned on its second RET with
\* "Foo" on the stack
C32_Witness ==
    /\ input = IfElseProgram(1, 2)
    /\ pc = "returned"
    /\ last.op = "RET"
    /\ last.at = 6
    /\ Vals(A.stack) = << [type |-> ALU_STRING, data |-> Foo] >>

\* C33: for two Bools a at index 0 and b at index 1 and any operand byte m,
\* EVAL m pushes a Bool determined by a, b and m only: true exactly when
\* (bit 0 of m and a = b) or (bit 1 of m and a false and b true) or (bit 2
\* of m and a true and b false)
C33_EvalBools ==
    [][LET a == Alu_get(A, 0)
           b == Alu_get(A, 1)
           m == last'.arg[1]
       IN  (/\ last'.op = "Alu_eval"
            /\ Stack_len(A.stack) >= 2
            /\ a.type = ALU_BOOL
            /\ b.type = ALU_BOOL)
           => /\ ~A'.crashed
              /\ Vals(A'.stack) =
                    << [type |-> ALU_BOOL,
                        data |-> IF \/ m % 2 = 1 /\ a.data = b.data
                                    \/ (m \div 2) % 2 = 1 /\ a.data = <<0>> /\ b.data = <<1>>
                                    \/ (m \div 4) % 2 = 1 /\ a.data = <<1>> /\ b.data = <<0>>
                                 THEN <<1>> ELSE <<0>>] >>]_vars

\* C34: in every reachable state, whenever the operand stack, the register
\* list or the garbage list is not empty, the top pointer of its head node
\* designates its last node
C34_TopInvariant ==
    ~A.crashed =>
        \A list \in {A.stack, A.regs, A.garbage} :
            list.data # <<>> => list.top = Len(list.data)

\* C35: EVAL on a stack holding exactly one value is safe: the missing
\* second operand is never dereferenced, and the instruction ends either
\* with an error reported and the stack unchanged or with the stack
\* holding exactly one Bool
C35_EvalOneValue ==
    [][(last'.op = "Alu_eval" /\ Len(A.stack.data) = 1)
         => /\ ~A'.crashed
            /\ \/ A'.raised # {} /\ A'.stack = A.stack
               \/ /\ Len(A'.stack.data) = 1
                  /\ A'.stack.data[1].type = ALU_BOOL]_vars

\* no jump of the decoded program has a negative operand
NonNegativeJumps ==
    \A i \in 1..Len(A.instructions.data) :
        LET record == A.instructions.data[i]
        IN  record[1] \in JumpOps => bytesint(SubSeq(record, 2, 5)) >= 0

\* C36: every program all of whose jump operands are >= 0 terminates: its
\* execution reaches RET, the end of the list or OUTJM, and main exits
C36_Terminates ==
    (pc = "execute" /\ NonNegativeJumps) ~> (pc = "exit" \/ A.crashed)

\* the buffer with its first three bytes replaced by sig
Signed(sig, buffer) == sig \o strcut(buffer, Len(ALU_SIGNATURE), Len(buffer))

\* C37: Alu_start skips the first three bytes of its input without
\* comparing them to the signature: two buffers that differ in these bytes
\* only decode to the same instruction list and end in the same stack,
\* registers and errors.  The run of the buffer is compared with the runs
\* of the buffers that carry the other first bytes
C37_SignatureSkipped ==
    /\ pc = "execute" /\ last.op = "Alu_start"
          => \A sig \in Signatures :
                 A.instructions.data \in
                    Alu_feed(strcut(Signed(sig, input), Len(sig), Len(input)), 0)
    /\ (pc = "returned" \/ (pc = "execute" /\ A.crashed))
          => \A sig \in Signatures :
                 [A |-> A, errors |-> errors] \in Run(Signed(sig, input))

\* a run has returned with a value on the stack, on a buffer whose first
\* three bytes are not the signature
C37_Witness ==
    /\ pc = "returned"
    /\ SubSeq(input, 1, Len(ALU_SIGNATURE)) # ALU_SIGNATURE
    /\ A.stack.data # <<>>
    /\ A.regs.data # <<>>
====
